---- MODULE Spec2Model ----
(***************************************************************************)
(* Model of the PDF classification and routing pipeline of                 *)
(* "Sorting program/Conversion & Sort 0.0.2.py" (assembled-document mode). *)
(*                                                                         *)
(*   - identify_page / compare_layouts : the classifier, as operators      *)
(*   - process_page                     : one pool task, statement by       *)
(*                                        statement on the shared dict      *)
(*   - process_files                    : the coordinator thread            *)
(*   - create_company_pdfs              : the output assembler              *)
(*                                                                         *)
(* Texts and keywords are sequences of characters, a layout feature is a   *)
(* record with its bounding box, the ordered dicts of Python (templates,   *)
(* company_images) are sequences of <<key, value>> pairs in insertion      *)
(* order, and an image is identified by the <<document, page>> it was      *)
(* rasterized from.                                                        *)
(***************************************************************************)
EXTENDS Integers, Sequences, FiniteSets

(***************************************************************************)
(* Bounds of the model.                                                    *)
(***************************************************************************)
MaxDocs == 2
MaxPages == 3
MaxBatchPages == 3
MaxTextLen == 2
MaxFeatures == 2

(***************************************************************************)
(* Program constants.                                                      *)
(***************************************************************************)
\* compare_layouts: abs(...) < 10 on both axes
Tolerance == 10
\* identify_page: layout_similarity > 0.8, kept as the fraction 8/10
ThresholdNum == 8
ThresholdDen == 10
\* ThreadPoolExecutor(): min(32, cpu_count + 4) threads, at least 5
max_workers == 5

None == "None"
ZeroDivisionError == "ZeroDivisionError"
Unbound == 0 - 1

(***************************************************************************)
(* Value universes the inputs are drawn from.                              *)
(***************************************************************************)
Chars == {"a", "b"}

RECURSIVE SeqsUpTo(_, _)
SeqsUpTo(S, n) ==
    IF n = 0 THEN {<<>>}
    ELSE LET shorter == SeqsUpTo(S, n - 1)
         IN  shorter \cup {Append(s, x) : s \in {t \in shorter : Len(t) = n - 1}, x \in S}

TextUniverse == SeqsUpTo(Chars, MaxTextLen)

Box(x0, y0) == [bounding_box |-> <<x0, y0, x0 + 50, y0 + 20>>]
FeatureUniverse == {Box(0, 0), Box(9, 9), Box(10, 0)}
LayoutUniverse == SeqsUpTo(FeatureUniverse, MaxFeatures)

Companies == {"A", "B"}

\* the "rules" object of one template; the key layout_features is optional
KeywordLists == {<<>>, << <<"a">> >>, << <<"b">> >>, << <<"a", "b">>, <<"b">> >>}
ReferenceLayouts == {<<>>, <<Box(0, 0)>>, <<Box(0, 0), Box(0, 0)>>}
RulesUniverse ==
    {[header_keywords |-> k] : k \in KeywordLists}
    \cup {[header_keywords |-> k, layout_features |-> l] :
             k \in KeywordLists, l \in ReferenceLayouts}

\* a template set: companies are unique keys, order is declaration order
TemplateUniverse ==
    {<<>>}
    \cup {<< <<c, r>> >> : c \in Companies, r \in RulesUniverse}
    \cup {t \in {<< <<c1, r1>>, <<c2, r2>> >> :
                     c1 \in Companies, c2 \in Companies,
                     r1 \in RulesUniverse, r2 \in RulesUniverse} :
             t[1][1] # t[2][1]}

(***************************************************************************)
(* The classifier.                                                         *)
(***************************************************************************)
Abs(x) == IF x < 0 THEN 0 - x ELSE x
Max(a, b) == IF a >= b THEN a ELSE b
Min(a, b) == IF a <= b THEN a ELSE b

\* Python's  keyword in text  on strings
IsSubstring(keyword, text) ==
    \E i \in 0..(Len(text) - Len(keyword)) :
        SubSeq(text, i + 1, i + Len(keyword)) = keyword

\* the loop of compare_layouts: zip stops at the shorter sequence
ZipMatches(features1, features2) ==
    Cardinality({i \in 1..Min(Len(features1), Len(features2)) :
        LET box1 == features1[i].bounding_box
            box2 == features2[i].bounding_box
        IN  /\ Abs(box1[1] - box2[1]) < Tolerance
            /\ Abs(box1[2] - box2[2]) < Tolerance})

\* compare_layouts: the quotient is kept as numerator and denominator;
\* a zero denominator is Python's ZeroDivisionError
compare_layouts(features1, features2) ==
    LET den == Max(Len(features1), Len(features2))
    IN  IF den = 0
        THEN [raised |-> TRUE, num |-> 0, den |-> 0]
        ELSE [raised |-> FALSE, num |-> ZipMatches(features1, features2), den |-> den]

text_match(text, rules) ==
    \E k \in 1..Len(rules.header_keywords) : IsSubstring(rules.header_keywords[k], text)

\* identify_page from template i on: the company returned, None, or the
\* exception raised by compare_layouts
RECURSIVE identify_from(_, _, _, _)
identify_from(i, text, layout_features, templates) ==
    IF i > Len(templates) THEN None
    ELSE LET company == templates[i][1]
             rules == templates[i][2]
             has_layout == "layout_features" \in DOMAIN rules
             sim == IF has_layout
                    THEN compare_layouts(layout_features, rules.layout_features)
                    ELSE [raised |-> FALSE, num |-> 0, den |-> 1]
         IN  IF sim.raised THEN ZeroDivisionError
             ELSE IF \/ text_match(text, rules)
                     \/ sim.num * ThresholdDen > ThresholdNum * sim.den
                  THEN company
                  ELSE identify_from(i + 1, text, layout_features, templates)

identify_page(text, layout_features, templates) ==
    identify_from(1, text, layout_features, templates)

\* identify_company of 0.0.1: keywords only
RECURSIVE identify_company_from(_, _, _)
identify_company_from(i, text, templates) ==
    IF i > Len(templates) THEN None
    ELSE IF text_match(text, templates[i][2])
         THEN templates[i][1]
         ELSE identify_company_from(i + 1, text, templates)

identify_company(text, templates) == identify_company_from(1, text, templates)

(***************************************************************************)
(* The environment of one batch run.                                       *)
(***************************************************************************)
\* an input file: whether fitz.open succeeds on it, and its page count
DocUniverse ==
    {[opens |-> FALSE, num_pages |-> 0]}
    \cup {[opens |-> TRUE, num_pages |-> n] : n \in 1..MaxPages}

RECURSIVE SumPages(_, _)
SumPages(paths, i) ==
    IF i > Len(paths) THEN 0 ELSE paths[i].num_pages + SumPages(paths, i + 1)

\* askopenfilenames gave at least one file (start_convert_pdf, line 164)
BatchUniverse ==
    {paths \in SeqsUpTo(DocUniverse, MaxDocs) \ {<<>>} :
        SumPages(paths, 1) <= MaxBatchPages}

\* the Template.json files a run may find
\* regex_patterns is a dict in file order: a sequence of <<field, pattern>>
KeywordTemplates ==
    << <<"A", [header_keywords |-> << <<"a">> >>,
               regex_patterns |->
                   << <<"Order Number", [kind |-> "literal", lit |-> <<"a", "a">>]>> >>]>>,
       <<"B", [header_keywords |-> << <<"b">> >>, regex_patterns |-> <<>>]>> >>
LayoutTemplates ==
    << <<"A", [header_keywords |-> << <<"a">> >>, layout_features |-> <<>>,
               regex_patterns |->
                   << <<"Order Number", [kind |-> "star", ch |-> "b"]>> >>]>>,
       <<"B", [header_keywords |-> << <<"b">> >>, layout_features |-> <<Box(0, 0)>>,
               regex_patterns |->
                   << <<"Date", [kind |-> "literal", lit |-> <<"b">>]>> >>]>> >>
TemplateFiles ==
    {[source |-> "missing", content |-> <<>>],
     [source |-> "malformed", content |-> <<>>],
     [source |-> "valid", content |-> KeywordTemplates],
     [source |-> "valid", content |-> LayoutTemplates]}

\* what a page of an input file may hold
PageTexts == {<<>>, <<"a">>, <<"b">>}
PageLayouts == {<<>>, <<Box(0, 0)>>, <<Box(10, 0)>>}
\* what OCR may read from a page (0.0.1)
OcrTexts == {<<>>, <<"a">>, <<"b">>, <<"a", "a">>}

\* the outcomes of assembling one company: success, or the step that fails
AssemblyOutcomes == {"ok", "makedirs", "image", "output"}

(***************************************************************************)
(* State.                                                                  *)
(***************************************************************************)
VARIABLES
    pdf_file_paths,   \* the batch: a sequence of documents
    template_source,  \* what load_templates found: "missing", "malformed", "valid"
    templates,        \* the loaded template set
    tasks,            \* page id -> [pc, outcome] of its process_page call
    company_images,   \* the shared dict: sequence of <<company, list of page ids>>
    appends,          \* every append a worker has made: {<<company, page id>>}
    pc,               \* where process_files is
    doc_index,        \* the document of the for loop (1-based)
    result_index,     \* the next result of executor.map to be yielded (0-based page)
    total_pages,
    completed_pages,
    progress_var,     \* the value last set: <<numerator, denominator>> of the percentage
    assembler_calls,  \* how many times create_company_pdfs was called
    company_index,    \* the entry of company_images create_company_pdfs is at
    folders,          \* company folders that exist under the output folder
    outputs,          \* company -> the pages of its written PDF
    temp_files,       \* companies whose folder holds a temp_image.jpg
    assembly_error,   \* the company whose assembly raised, or None
    cl_text, cl_layout, cl_templates,   \* inputs of one classifier call
    cl_result,        \* what identify_page gave for them
    cl_company,       \* what identify_company (0.0.1) gave for them
    root_destroyed,   \* exit_program has run: root.destroy()
    version,          \* the source file that runs: "0.0.2" or "0.0.1"
    saved_files,      \* 0.0.1: the image files on disk, {<<company, file name, page id>>}
    nm_text, nm_templates, nm_page_number,   \* inputs of one naming of a page (0.0.1)
    nm_file_name      \* the file name lines 89-94 of 0.0.1 gave for them

pipeline_vars ==
    <<pdf_file_paths, template_source, templates, tasks, company_images, appends, pc,
      doc_index, result_index, total_pages, completed_pages, progress_var,
      assembler_calls, company_index, folders, outputs, temp_files, assembly_error>>
classifier_vars == <<cl_text, cl_layout, cl_templates, cl_result, cl_company>>
gui_vars == <<root_destroyed>>
direct_vars == <<version, saved_files>>
naming_vars == <<nm_text, nm_templates, nm_page_number, nm_file_name>>
other_vars == <<classifier_vars, gui_vars, direct_vars, naming_vars>>
vars == <<pipeline_vars, other_vars>>

(***************************************************************************)
(* Helpers on the state.                                                   *)
(***************************************************************************)
PagesOf(d) == {<<d, p>> : p \in 0..(pdf_file_paths[d].num_pages - 1)}
PageIds == UNION {PagesOf(d) : d \in 1..Len(pdf_file_paths)}

\* dict operations on a sequence of <<key, value>> pairs
HasKey(dict, key) == \E i \in 1..Len(dict) : dict[i][1] = key
KeyIndex(dict, key) == CHOOSE i \in 1..Len(dict) : dict[i][1] = key
Lookup(dict, key) == dict[KeyIndex(dict, key)][2]
\* dict[key] = value: a present key keeps its place, a new key goes last
Store(dict, key, value) ==
    IF HasKey(dict, key)
    THEN [dict EXCEPT ![KeyIndex(dict, key)] = <<key, value>>]
    ELSE Append(dict, <<key, value>>)

Running == {t \in PageIds : tasks[t].pc \in {"assign", "append"}}

\* the run is over: process_files returned, or its except clause logged
RunOver == pc \in {"returned", "excepted"}

(***************************************************************************)
(* load_templates.                                                         *)
(***************************************************************************)
\* only FileNotFoundError is caught; json.load on a malformed file raises
load_templates(file) ==
    IF file.source = "missing" THEN [raised |-> FALSE, value |-> <<>>]
    ELSE IF file.source = "malformed" THEN [raised |-> TRUE, value |-> <<>>]
    ELSE [raised |-> FALSE, value |-> file.content]

(***************************************************************************)
(* process_page: one task of the pool.                                     *)
(*                                                                         *)
(* Lines 86-99 touch only the task's own objects, so they are one step     *)
(* together with the read of the shared dict in line 102. Lines 103 and    *)
(* 104 are separate steps: another thread may run between them.            *)
(***************************************************************************)
\* lines 86-99: the company, None, or "error" when any statement raised
page_outcome(extract_ok, text, layout_features, raster_ok, tpl) ==
    IF ~extract_ok THEN "error"
    ELSE LET company == identify_page(text, layout_features, tpl)
         IN  IF company = ZeroDivisionError THEN "error"
             ELSE IF ~raster_ok THEN "error"
             ELSE company

\* after_identify without the test of line 101: an unmatched page is routed
\* like a matched one
after_identify_routes_unmatched(outcome, dict) ==
    IF outcome = "error" THEN [pc |-> "done", outcome |-> "error"]
    ELSE [pc |-> IF HasKey(dict, outcome) THEN "append" ELSE "assign",
          outcome |-> outcome]

\* lines 101-112 up to the first access to company_images
after_identify(outcome, dict) ==
    IF outcome = "error" THEN [pc |-> "done", outcome |-> "error"]
    ELSE IF outcome = None THEN [pc |-> "done", outcome |-> None]
    ELSE [pc |-> IF HasKey(dict, outcome) THEN "append" ELSE "assign",
          outcome |-> outcome]

StartPage(t) ==
    /\ tasks[t].pc = "queued"
    /\ Cardinality(Running) < max_workers
    /\ \E extract_ok \in BOOLEAN, raster_ok \in BOOLEAN,
          text \in PageTexts, layout_features \in PageLayouts :
          tasks' = [tasks EXCEPT ![t] =
              after_identify(
                  page_outcome(extract_ok, text, layout_features, raster_ok, templates),
                  company_images)]
    /\ UNCHANGED <<pdf_file_paths, template_source, templates, company_images, appends,
                   pc, doc_index, result_index, total_pages, completed_pages,
                   progress_var, assembler_calls, company_index, folders, outputs,
                   temp_files, assembly_error, other_vars>>

\* line 103: company_images[company] = []
AssignList(t) ==
    /\ tasks[t].pc = "assign"
    /\ company_images' = Store(company_images, tasks[t].outcome, <<>>)
    /\ tasks' = [tasks EXCEPT ![t].pc = "append"]
    /\ UNCHANGED <<pdf_file_paths, template_source, templates, appends,
                   pc, doc_index, result_index, total_pages, completed_pages,
                   progress_var, assembler_calls, company_index, folders, outputs,
                   temp_files, assembly_error, other_vars>>

\* lines 104-109: company_images[company].append(image), then the task returns.
\* The lookup of the list and the append are one step: an append to a list
\* that another thread replaced in between is lost, which is the same final
\* dict as appending first and being replaced afterwards.
AppendImage(t) ==
    /\ tasks[t].pc = "append"
    /\ LET company == tasks[t].outcome
       IN  /\ company_images' =
                  Store(company_images, company, Append(Lookup(company_images, company), t))
           /\ appends' = appends \cup {<<company, t>>}
    /\ tasks' = [tasks EXCEPT ![t].pc = "done"]
    /\ UNCHANGED <<pdf_file_paths, template_source, templates,
                   pc, doc_index, result_index, total_pages, completed_pages,
                   progress_var, assembler_calls, company_index, folders, outputs,
                   temp_files, assembly_error, other_vars>>

(***************************************************************************)
(* process_files: the coordinator thread.                                  *)
(***************************************************************************)
\* lines 136-137
LoadTemplates ==
    /\ pc = "load_templates"
    /\ \E file \in TemplateFiles :
          LET loaded == load_templates(file)
          IN  /\ template_source' = file.source
              /\ templates' = loaded.value
              /\ pc' = IF loaded.raised THEN "excepted" ELSE "count_pages"
    /\ company_images' = <<>>
    /\ UNCHANGED <<pdf_file_paths, tasks, appends, doc_index, result_index,
                   total_pages, completed_pages, progress_var, assembler_calls,
                   company_index, folders, outputs, temp_files, assembly_error,
                   other_vars>>

\* lines 139-140: fitz.open raises on a file it cannot open
CountPages ==
    /\ pc = "count_pages"
    /\ IF \E d \in 1..Len(pdf_file_paths) : ~pdf_file_paths[d].opens
       THEN /\ pc' = "excepted"
            /\ UNCHANGED <<total_pages, completed_pages, doc_index>>
       ELSE /\ total_pages' = SumPages(pdf_file_paths, 1)
            /\ completed_pages' = 0
            /\ doc_index' = 1
            /\ pc' = "next_document"
    /\ UNCHANGED <<pdf_file_paths, template_source, templates, tasks, company_images,
                   appends, result_index, progress_var, assembler_calls, company_index,
                   folders, outputs, temp_files, assembly_error, other_vars>>

\* lines 143-149: executor.map submits every page of the document at once
SubmitDocument ==
    /\ pc = "next_document"
    /\ doc_index <= Len(pdf_file_paths)
    /\ tasks' = [t \in PageIds |->
                    IF t \in PagesOf(doc_index)
                    THEN [pc |-> "queued", outcome |-> "pending"]
                    ELSE tasks[t]]
    /\ result_index' = 0
    /\ pc' = "collect"
    /\ UNCHANGED <<pdf_file_paths, template_source, templates, company_images, appends,
                   doc_index, total_pages, completed_pages, progress_var,
                   assembler_calls, company_index, folders, outputs, temp_files,
                   assembly_error, other_vars>>

\* Collect when the exception of a failed page reaches executor.map: the
\* iteration raises and the except clause of process_files ends the run
Collect_StopsAtFailedPage ==
    /\ pc = "collect"
    /\ tasks[<<doc_index, result_index>>].pc = "done"
    /\ IF tasks[<<doc_index, result_index>>].outcome = "error"
       THEN /\ pc' = "excepted"
            /\ UNCHANGED <<completed_pages, progress_var, result_index, doc_index>>
       ELSE /\ completed_pages' = completed_pages + 1
            /\ progress_var' = <<(completed_pages + 1) * 100, total_pages>>
            /\ IF result_index + 1 < pdf_file_paths[doc_index].num_pages
               THEN /\ result_index' = result_index + 1
                    /\ UNCHANGED <<doc_index, pc>>
               ELSE /\ result_index' = 0
                    /\ doc_index' = doc_index + 1
                    /\ pc' = "next_document"
    /\ UNCHANGED <<pdf_file_paths, template_source, templates, tasks, company_images,
                   appends, total_pages, assembler_calls, company_index, folders,
                   outputs, temp_files, assembly_error, other_vars>>

\* Collect when the loop over the results of a document is left after its
\* first result: the next document is submitted while pages still run
Collect_LeavesDocumentAfterFirstResult ==
    /\ pc = "collect"
    /\ tasks[<<doc_index, result_index>>].pc = "done"
    /\ completed_pages' = completed_pages + 1
    /\ progress_var' = <<(completed_pages + 1) * 100, total_pages>>
    /\ result_index' = 0
    /\ doc_index' = doc_index + 1
    /\ pc' = "next_document"
    /\ UNCHANGED <<pdf_file_paths, template_source, templates, tasks, company_images,
                   appends, total_pages, assembler_calls, company_index, folders,
                   outputs, temp_files, assembly_error, other_vars>>

\* lines 149-152: the next result, in page order, once its task is done
Collect ==
    /\ pc = "collect"
    /\ ~root_destroyed
    /\ tasks[<<doc_index, result_index>>].pc = "done"
    /\ completed_pages' = completed_pages + 1
    /\ progress_var' = <<(completed_pages + 1) * 100, total_pages>>
    /\ IF result_index + 1 < pdf_file_paths[doc_index].num_pages
       THEN /\ result_index' = result_index + 1
            /\ UNCHANGED <<doc_index, pc>>
       ELSE /\ result_index' = 0
            /\ doc_index' = doc_index + 1
            /\ pc' = "next_document"
    /\ UNCHANGED <<pdf_file_paths, template_source, templates, tasks, company_images,
                   appends, total_pages, assembler_calls, company_index, folders,
                   outputs, temp_files, assembly_error, other_vars>>

\* leaving the with block: executor.shutdown(wait=True) joins every worker
ShutdownPool ==
    /\ pc = "next_document"
    /\ doc_index > Len(pdf_file_paths)
    /\ \A t \in PageIds : tasks[t].pc = "done"
    /\ pc' = "call_assembler"
    /\ UNCHANGED <<pdf_file_paths, template_source, templates, tasks, company_images,
                   appends, doc_index, result_index, total_pages, completed_pages,
                   progress_var, assembler_calls, company_index, folders, outputs,
                   temp_files, assembly_error, other_vars>>

(***************************************************************************)
(* create_company_pdfs.                                                    *)
(***************************************************************************)
\* line 154
CallAssembler ==
    /\ pc = "call_assembler"
    /\ assembler_calls' = assembler_calls + 1
    /\ company_index' = 1
    /\ pc' = "assembling"
    /\ UNCHANGED <<pdf_file_paths, template_source, templates, tasks, company_images,
                   appends, doc_index, result_index, total_pages, completed_pages,
                   progress_var, folders, outputs, temp_files, assembly_error,
                   other_vars>>

\* lines 120-130: the pages of the PDF written for a list of images. Every
\* image is saved under the same temp_path and handed to pdf.image by that
\* name; FPDF keeps the images of a document in a dict keyed by file name and
\* parses a file only the first time its name is seen, so every page after
\* the first draws the image cached for temp_path: the first one.
fpdf_pages(images) == [i \in 1..Len(images) |-> images[1]]

\* lines 116-131 for one company; a raise leaves the loop and the function
\* and is logged by the except clause of process_files (lines 156-157)
AssembleCompany ==
    /\ pc = "assembling"
    /\ company_index <= Len(company_images)
    /\ LET company == company_images[company_index][1]
           images == company_images[company_index][2]
       IN  \E outcome \in AssemblyOutcomes :
              /\ folders' = IF outcome = "makedirs" THEN folders
                            ELSE folders \cup {company}
              /\ temp_files' = IF outcome = "image" THEN temp_files \cup {company}
                               ELSE temp_files
              /\ outputs' = IF outcome = "ok"
                            THEN [c \in DOMAIN outputs \cup {company} |->
                                     IF c = company THEN fpdf_pages(images) ELSE outputs[c]]
                            ELSE outputs
              /\ assembly_error' = IF outcome = "ok" THEN assembly_error ELSE company
              /\ pc' = IF outcome = "ok" THEN pc ELSE "excepted"
              /\ company_index' = IF outcome = "ok" THEN company_index + 1
                                  ELSE company_index
    /\ UNCHANGED <<pdf_file_paths, template_source, templates, tasks, company_images,
                   appends, doc_index, result_index, total_pages, completed_pages,
                   progress_var, assembler_calls, other_vars>>

\* the loop of line 116 is exhausted; process_files returns
ReturnAssembler ==
    /\ pc = "assembling"
    /\ company_index > Len(company_images)
    /\ pc' = "returned"
    /\ UNCHANGED <<pdf_file_paths, template_source, templates, tasks, company_images,
                   appends, doc_index, result_index, total_pages, completed_pages,
                   progress_var, assembler_calls, company_index, folders, outputs,
                   temp_files, assembly_error, other_vars>>

(***************************************************************************)
(* The batch run.                                                          *)
(***************************************************************************)
ClassifierIdle ==
    /\ cl_text = <<>>
    /\ cl_layout = <<>>
    /\ cl_templates = <<>>
    /\ cl_result = "idle"
    /\ cl_company = "idle"

NamingIdle ==
    /\ nm_text = <<>>
    /\ nm_templates = <<>>
    /\ nm_page_number = 0
    /\ nm_file_name = <<>>

PipelineStart(paths) ==
    /\ pdf_file_paths = paths
    /\ template_source = "unread"
    /\ templates = <<>>
    /\ tasks = [t \in PageIds |-> [pc |-> "unsubmitted", outcome |-> "pending"]]
    /\ company_images = <<>>
    /\ appends = {}
    /\ pc = "load_templates"
    /\ doc_index = 0
    /\ result_index = 0
    /\ total_pages = Unbound
    /\ completed_pages = Unbound
    /\ progress_var = <<0, 1>>
    /\ assembler_calls = 0
    /\ company_index = 0
    /\ folders = {}
    /\ outputs = <<>>
    /\ temp_files = {}
    /\ assembly_error = None
    /\ root_destroyed = FALSE
    /\ saved_files = {}

Init ==
    /\ \E paths \in BatchUniverse : PipelineStart(paths)
    /\ version = "0.0.2"
    /\ ClassifierIdle
    /\ NamingIdle

Next ==
    \/ LoadTemplates
    \/ CountPages
    \/ SubmitDocument
    \/ \E t \in PageIds : StartPage(t)
    \/ \E t \in PageIds : AssignList(t)
    \/ \E t \in PageIds : AppendImage(t)
    \/ Collect
    \/ ShutdownPool
    \/ CallAssembler
    \/ AssembleCompany
    \/ ReturnAssembler

Spec == Init /\ [][Next]_vars

(***************************************************************************)
(* The batch run with the Exit button: exit_program destroys the root      *)
(* window while the thread of process_files goes on.                       *)
(***************************************************************************)
\* lines 192-193, while process_files is running
Exit ==
    /\ ~root_destroyed
    /\ ~RunOver
    /\ root_destroyed' = TRUE
    /\ UNCHANGED <<pipeline_vars, classifier_vars, direct_vars, naming_vars>>

\* lines 149-152 once the root is destroyed: line 150 counts the result,
\* then progress_var.set or root.update_idletasks raises (the application
\* has been destroyed); the value may or may not have been set
CollectAfterExit ==
    /\ pc = "collect"
    /\ root_destroyed
    /\ tasks[<<doc_index, result_index>>].pc = "done"
    /\ completed_pages' = completed_pages + 1
    /\ \E was_set \in BOOLEAN :
          progress_var' = IF was_set THEN <<(completed_pages + 1) * 100, total_pages>>
                          ELSE progress_var
    /\ pc' = "unwinding"
    /\ UNCHANGED <<pdf_file_paths, template_source, templates, tasks, company_images,
                   appends, doc_index, result_index, total_pages, assembler_calls,
                   company_index, folders, outputs, temp_files, assembly_error,
                   other_vars>>

\* the exception leaves the with block: executor.shutdown(wait=True) lets
\* every submitted task run to its end, then lines 156-157 log it
Unwind ==
    /\ pc = "unwinding"
    /\ \A t \in PageIds : tasks[t].pc \in {"unsubmitted", "done"}
    /\ pc' = "excepted"
    /\ UNCHANGED <<pdf_file_paths, template_source, templates, tasks, company_images,
                   appends, doc_index, result_index, total_pages, completed_pages,
                   progress_var, assembler_calls, company_index, folders, outputs,
                   temp_files, assembly_error, other_vars>>

NextCancel ==
    \/ Next
    \/ Exit
    \/ CollectAfterExit
    \/ Unwind

SpecCancel == Init /\ [][NextCancel]_vars

(***************************************************************************)
(* 0.0.1: field extraction and file naming.                                *)
(***************************************************************************)
\* the patterns of the model: a literal string, c* and c+ for a character c
PatternUniverse ==
    {[kind |-> "literal", lit |-> l] : l \in SeqsUpTo(Chars, 1)}
        \cup {[kind |-> k, ch |-> c] : k \in {"star", "plus"}, c \in Chars}

\* the length of the run of c in text that starts at position i
RECURSIVE RunLength(_, _, _)
RunLength(text, i, c) ==
    IF i > Len(text) THEN 0
    ELSE IF text[i] # c THEN 0
    ELSE 1 + RunLength(text, i + 1, c)

NoMatch == [matched |-> FALSE, group |-> <<>>]

\* re.search(pattern, text) and match.group(): the leftmost match, greedy
re_search(pattern, text) ==
    IF pattern.kind = "literal"
    THEN IF IsSubstring(pattern.lit, text)
         THEN [matched |-> TRUE, group |-> pattern.lit]
         ELSE NoMatch
    ELSE IF pattern.kind = "star"
    THEN [matched |-> TRUE, group |-> SubSeq(text, 1, RunLength(text, 1, pattern.ch))]
    ELSE IF \E i \in 1..Len(text) : text[i] = pattern.ch
         THEN LET first == CHOOSE i \in 1..Len(text) :
                               /\ text[i] = pattern.ch
                               /\ \A j \in 1..(i - 1) : text[j] # pattern.ch
              IN  [matched |-> TRUE,
                   group |-> SubSeq(text, first,
                                    first + RunLength(text, first, pattern.ch) - 1)]
         ELSE NoMatch

\* lines 62-68: a dict field -> match (None is NoMatch), empty for no company
extract_data(text, tpl, company) ==
    IF HasKey(tpl, company)
    THEN LET regex_patterns == Lookup(tpl, company).regex_patterns
         IN  [i \in 1..Len(regex_patterns) |->
                 <<regex_patterns[i][1], re_search(regex_patterns[i][2], text)>>]
    ELSE <<>>

\* line 93: extracted_data.get("Order Number") if extracted_data else None
order_number_of(extracted_data) ==
    IF extracted_data # <<>> /\ HasKey(extracted_data, "Order Number")
    THEN Lookup(extracted_data, "Order Number")
    ELSE NoMatch

\* str(page_number + 1)
DecimalDigits == <<"1", "2", "3", "4", "5", "6", "7", "8", "9">>

\* file_name that takes any match for a name
file_name_of_any_match(order_number, page_number) ==
    IF order_number.matched
    THEN order_number.group \o <<".png">>
    ELSE <<"page_", DecimalDigits[page_number + 1], ".png">>

\* line 94: None and the empty string are both false
file_name(order_number, page_number) ==
    IF order_number.matched /\ order_number.group # <<>>
    THEN order_number.group \o <<".png">>
    ELSE <<"page_", DecimalDigits[page_number + 1], ".png">>

\* lines 89-94
page_file_name(text, tpl, page_number) ==
    LET company == identify_company(text, tpl)
        extracted_data == extract_data(text, tpl, company)
    IN  file_name(order_number_of(extracted_data), page_number)

(***************************************************************************)
(* 0.0.1: process_page saves the page image itself.                        *)
(*                                                                         *)
(* Lines 74-94 touch only the task's own objects, so they are one step     *)
(* together with os.path.exists of line 49. os.makedirs (line 50) and      *)
(* image.save (line 102) are separate steps: another thread may run        *)
(* between them.                                                           *)
(***************************************************************************)
\* lines 74-94, then the test of line 96 and of line 49
page_result01(raster_ok, in_range, ocr_ok, text, page_number, tpl, existing) ==
    IF ~raster_ok THEN [pc |-> "done", outcome |-> "error", file_name |-> <<>>]
    ELSE IF ~in_range
    THEN [pc |-> "done", outcome |-> "out_of_range", file_name |-> <<>>]
    ELSE IF ~ocr_ok THEN [pc |-> "done", outcome |-> "error", file_name |-> <<>>]
    ELSE LET company == identify_company(text, tpl)
         IN  IF company = None
             THEN [pc |-> "done", outcome |-> None, file_name |-> <<>>]
             ELSE [pc |-> IF company \in existing THEN "save" ELSE "makedirs",
                   outcome |-> company,
                   file_name |-> page_file_name(text, tpl, page_number)]

StartPage01(t) ==
    /\ tasks[t].pc = "queued"
    /\ \E raster_ok \in BOOLEAN, in_range \in BOOLEAN, ocr_ok \in BOOLEAN,
          text \in OcrTexts :
          tasks' = [tasks EXCEPT ![t] =
              page_result01(raster_ok, in_range, ocr_ok, text, t[2], templates, folders)]
    /\ UNCHANGED <<pdf_file_paths, template_source, templates, company_images, appends,
                   pc, doc_index, result_index, total_pages, completed_pages,
                   progress_var, assembler_calls, company_index, folders, outputs,
                   temp_files, assembly_error, other_vars>>

\* line 50: os.makedirs raises FileExistsError when the folder exists by
\* now; lines 110-112 catch it and the task returns without saving
MakeDirs01(t) ==
    /\ tasks[t].pc = "makedirs"
    /\ IF tasks[t].outcome \in folders
       THEN /\ tasks' = [tasks EXCEPT ![t].pc = "done",
                                      ![t].outcome = "FileExistsError"]
            /\ UNCHANGED folders
       ELSE /\ folders' = folders \cup {tasks[t].outcome}
            /\ tasks' = [tasks EXCEPT ![t].pc = "save"]
    /\ UNCHANGED <<pdf_file_paths, template_source, templates, company_images, appends,
                   pc, doc_index, result_index, total_pages, completed_pages,
                   progress_var, assembler_calls, company_index, outputs,
                   temp_files, assembly_error, other_vars>>

\* lines 101-102: image.save writes the file, replacing one of that name
SaveImage01(t) ==
    /\ tasks[t].pc = "save"
    /\ saved_files' =
           {f \in saved_files :
                ~(f[1] = tasks[t].outcome /\ f[2] = tasks[t].file_name)}
               \cup {<<tasks[t].outcome, tasks[t].file_name, t>>}
    /\ tasks' = [tasks EXCEPT ![t].pc = "done"]
    /\ UNCHANGED <<pdf_file_paths, template_source, templates, company_images, appends,
                   pc, doc_index, result_index, total_pages, completed_pages,
                   progress_var, assembler_calls, company_index, folders, outputs,
                   temp_files, assembly_error, classifier_vars, gui_vars, version,
                   naming_vars>>

(***************************************************************************)
(* 0.0.1: process_files. Lines 117-128 are those of 0.0.2 (LoadTemplates,  *)
(* CountPages, SubmitDocument).                                            *)
(***************************************************************************)
\* line 129: extend consumes the iterator of executor.map to its end, so
\* the loop goes on once every page of the document has returned
ExtendResults01 ==
    /\ pc = "collect"
    /\ \A t \in PagesOf(doc_index) : tasks[t].pc = "done"
    /\ doc_index' = doc_index + 1
    /\ pc' = "next_document"
    /\ UNCHANGED <<pdf_file_paths, template_source, templates, tasks, company_images,
                   appends, result_index, total_pages, completed_pages, progress_var,
                   assembler_calls, company_index, folders, outputs, temp_files,
                   assembly_error, other_vars>>

\* ReportProgress01 inside the loop over the documents: one result is
\* counted as soon as its document has been consumed
ReportProgress01_InsideDocumentLoop ==
    /\ pc = "next_document"
    /\ completed_pages < total_pages
    /\ \E d \in 1..(doc_index - 1) : pdf_file_paths[d].num_pages > 0
    /\ completed_pages' = completed_pages + 1
    /\ progress_var' = <<(completed_pages + 1) * 100, total_pages>>
    /\ UNCHANGED <<pdf_file_paths, template_source, templates, tasks, company_images,
                   appends, pc, doc_index, result_index, total_pages,
                   assembler_calls, company_index, folders, outputs, temp_files,
                   assembly_error, other_vars>>

\* lines 131-134: one turn of the loop over future_results
ReportProgress01 ==
    /\ pc = "next_document"
    /\ doc_index > Len(pdf_file_paths)
    /\ completed_pages < total_pages
    /\ completed_pages' = completed_pages + 1
    /\ progress_var' = <<(completed_pages + 1) * 100, total_pages>>
    /\ UNCHANGED <<pdf_file_paths, template_source, templates, tasks, company_images,
                   appends, pc, doc_index, result_index, total_pages,
                   assembler_calls, company_index, folders, outputs, temp_files,
                   assembly_error, other_vars>>

\* the loop is over: the with block ends and process_files returns
Return01 ==
    /\ pc = "next_document"
    /\ doc_index > Len(pdf_file_paths)
    /\ completed_pages = total_pages
    /\ pc' = "returned"
    /\ UNCHANGED <<pdf_file_paths, template_source, templates, tasks, company_images,
                   appends, doc_index, result_index, total_pages, completed_pages,
                   progress_var, assembler_calls, company_index, folders, outputs,
                   temp_files, assembly_error, other_vars>>

Init01 ==
    /\ \E paths \in BatchUniverse : PipelineStart(paths)
    /\ version = "0.0.1"
    /\ ClassifierIdle
    /\ NamingIdle

Next01 ==
    \/ LoadTemplates
    \/ CountPages
    \/ SubmitDocument
    \/ \E t \in PageIds : StartPage01(t)
    \/ \E t \in PageIds : MakeDirs01(t)
    \/ \E t \in PageIds : SaveImage01(t)
    \/ ExtendResults01
    \/ ReportProgress01
    \/ Return01

Spec01 == Init01 /\ [][Next01]_vars

(***************************************************************************)
(* Either version of the program runs the batch.                           *)
(***************************************************************************)
InitVersions ==
    /\ \E paths \in BatchUniverse : PipelineStart(paths)
    /\ version \in {"0.0.2", "0.0.1"}
    /\ ClassifierIdle
    /\ NamingIdle

NextVersions ==
    \/ version = "0.0.2" /\ Next
    \/ version = "0.0.1" /\ Next01

SpecVersions == InitVersions /\ [][NextVersions]_vars

(***************************************************************************)
(* The naming of one page on its own (0.0.1, lines 89-94).                 *)
(***************************************************************************)
\* one company whose header keyword is in every text or in some, with no
\* patterns, one pattern for "Order Number", or one for another field
NamingTemplates ==
    {<< <<"A", [header_keywords |-> <<k>>, regex_patterns |-> r]>> >> :
        k \in {<<>>, <<"a">>},
        r \in {<<>>} \cup {<< <<f, p>> >> : f \in {"Order Number", "Date"},
                                            p \in PatternUniverse}}

InitNaming ==
    /\ PipelineStart(<<[opens |-> TRUE, num_pages |-> 1]>>)
    /\ version = "0.0.1"
    /\ ClassifierIdle
    /\ nm_text \in TextUniverse
    /\ nm_templates \in NamingTemplates
    /\ nm_page_number \in 0..(MaxPages - 1)
    /\ nm_file_name = <<"pending">>

NamePage ==
    /\ nm_file_name = <<"pending">>
    /\ nm_file_name' = page_file_name(nm_text, nm_templates, nm_page_number)
    /\ UNCHANGED <<pipeline_vars, classifier_vars, gui_vars, direct_vars,
                   nm_text, nm_templates, nm_page_number>>

NextNaming == NamePage

SpecNaming == InitNaming /\ [][NextNaming]_vars

(***************************************************************************)
(* The classifier on its own: one call on inputs drawn from the universes. *)
(***************************************************************************)
InitClassify ==
    /\ PipelineStart(<<[opens |-> TRUE, num_pages |-> 1]>>)
    /\ cl_text \in TextUniverse
    /\ cl_layout \in LayoutUniverse
    /\ cl_templates \in TemplateUniverse
    /\ cl_result = "pending"
    /\ cl_company = "pending"
    /\ version = "0.0.2"
    /\ NamingIdle

Classify ==
    /\ cl_result = "pending"
    /\ cl_result' = identify_page(cl_text, cl_layout, cl_templates)
    /\ UNCHANGED <<pipeline_vars, gui_vars, direct_vars, naming_vars,
                   cl_text, cl_layout, cl_templates, cl_company>>

ClassifyCompany ==
    /\ cl_company = "pending"
    /\ cl_company' = identify_company(cl_text, cl_templates)
    /\ UNCHANGED <<pipeline_vars, gui_vars, direct_vars, naming_vars,
                   cl_text, cl_layout, cl_templates, cl_result>>

NextClassify == Classify \/ ClassifyCompany

SpecClassify == InitClassify /\ [][NextClassify]_vars

TypeOK ==
    /\ pc \in {"load_templates", "count_pages", "next_document", "collect",
               "call_assembler", "assembling", "returned", "excepted"}
    /\ \A t \in PageIds :
          /\ tasks[t].pc \in {"unsubmitted", "queued", "assign", "append", "done"}
          /\ tasks[t].outcome \in Companies \cup {None, "pending", "error"}

(***************************************************************************)
(* Vocabulary of the claims.                                               *)
(***************************************************************************)
\* every page-unit has completed and the pool is shut down
Drained ==
    \/ pc \in {"call_assembler", "assembling", "returned"}
    \/ pc = "excepted" /\ assembler_calls > 0

SomeDocumentOpens == \E d \in 1..Len(pdf_file_paths) : pdf_file_paths[d].opens
SomeDocumentFails == \E d \in 1..Len(pdf_file_paths) : ~pdf_file_paths[d].opens

\* the pages of the documents that can be opened
OpenablePages ==
    UNION {PagesOf(d) : d \in {e \in 1..Len(pdf_file_paths) : pdf_file_paths[e].opens}}

\* the result of page t has been yielded to the loop of process_files
Collected(t) ==
    /\ doc_index > 0
    /\ \/ t[1] < doc_index
       \/ t[1] = doc_index /\ t[2] < result_index

\* the reported fraction is 1.0
ProgressComplete == progress_var[1] = 100 * progress_var[2]

\* fraction a <= fraction b
ProgressLeq(a, b) == a[1] * b[2] <= b[1] * a[2]

Occurrences(list, t) == Cardinality({i \in 1..Len(list) : list[i] = t})
InBucket(company, t) ==
    /\ HasKey(company_images, company)
    /\ Occurrences(Lookup(company_images, company), t) > 0
InSomeBucket(t) ==
    \E i \in 1..Len(company_images) : Occurrences(company_images[i][2], t) > 0
InSomeOutput(t) ==
    \E c \in DOMAIN outputs : Occurrences(outputs[c], t) > 0

\* document-enumeration order, then ascending page index
PageBefore(t, u) == t[1] < u[1] \/ (t[1] = u[1] /\ t[2] < u[2])
EnumerationOrdered(list) ==
    \A i \in 1..Len(list), j \in 1..Len(list) : i < j => PageBefore(list[i], list[j])

FailedPages == {t \in PageIds : tasks[t].outcome = "error"}
UnmatchedPages == {t \in PageIds : tasks[t].outcome = None}
MatchedPages == {t \in PageIds : tasks[t].outcome \in Companies}

(***************************************************************************)
(* What holds of the run whatever its inputs: the parts of the progress    *)
(* and barrier contracts that do not depend on the run reaching line 154.  *)
(***************************************************************************)
\* the reported fraction never decreases and never exceeds 1.0
ProgressMonotone == [][ProgressLeq(progress_var, progress_var')]_vars
ProgressBounded == progress_var[1] <= 100 * progress_var[2]

\* the assembler is called at most once, after every page-unit is done and
\* no worker is between its read and its write of company_images
AssemblerAfterDrain ==
    /\ assembler_calls <= 1
    /\ assembler_calls > 0 =>
          /\ \A t \in PageIds : tasks[t].pc = "done" /\ Collected(t)
          /\ Running = {}
          /\ ProgressComplete

\* a run ends in the except clause before the assembler is called only when
\* the template file is malformed or a document cannot be opened
AbortOnlyBeforeDispatch ==
    (pc = "excepted" /\ assembler_calls = 0) =>
        /\ template_source = "malformed" \/ SomeDocumentFails
        /\ \A t \in PageIds : tasks[t].pc = "unsubmitted"
        /\ progress_var = <<0, 1>>

(***************************************************************************)
(* Claims.                                                                 *)
(***************************************************************************)

\* C1: the completed-page count reported by process_files never decreases,
\* never exceeds the total, and the reported fraction is 1.0 once the run of
\* a batch with a document that can be opened is over.
C1_ProgressReachesTotal ==
    /\ [][ProgressLeq(progress_var, progress_var')]_vars
    /\ [](progress_var[1] <= 100 * progress_var[2])
    /\ []((RunOver /\ SomeDocumentOpens) => ProgressComplete)

\* C2: create_company_pdfs is invoked exactly once in every run of a batch
\* with a document that can be opened, only after every page-unit has
\* completed, and never while a worker can still write to company_images.
C2_DrainBarrier ==
    /\ assembler_calls <= 1
    /\ assembler_calls > 0 =>
          /\ \A t \in OpenablePages : t \in PageIds /\ tasks[t].pc = "done"
          /\ Running = {}
    /\ (RunOver /\ SomeDocumentOpens) => assembler_calls = 1

\* C3: once classification has drained, every bucket lists its pages in
\* document-enumeration order and, within a document, ascending page index.
C3_BucketsInEnumerationOrder ==
    Drained =>
        \A i \in 1..Len(company_images) : EnumerationOrdered(company_images[i][2])

\* C4: once all workers have finished, every page classified to a company
\* and rasterized without error is exactly once in that company's list.
C4_NoInsertionLost ==
    Drained =>
        \A t \in MatchedPages :
            /\ HasKey(company_images, tasks[t].outcome)
            /\ Occurrences(Lookup(company_images, tasks[t].outcome), t) = 1

\* the match condition of one template as the classifier's contract states
\* it: a keyword occurs in the text, or the template declares reference
\* features and the similarity (0 for two empty sequences) exceeds 0.8
SimilarityAboveThreshold(layout_features, reference) ==
    /\ Max(Len(layout_features), Len(reference)) > 0
    /\ ZipMatches(layout_features, reference) * ThresholdDen
           > ThresholdNum * Max(Len(layout_features), Len(reference))

TemplateMatches(rules, text, layout_features) ==
    \/ text_match(text, rules)
    \/ /\ "layout_features" \in DOMAIN rules
       /\ SimilarityAboveThreshold(layout_features, rules.layout_features)

EarliestMatch(matching, tpl) ==
    IF matching = {} THEN None
    ELSE tpl[CHOOSE i \in matching : \A j \in matching : i <= j][1]

\* C5: the classifier returns the earliest-declared template whose match
\* condition holds, and None exactly when no template matches
\* (identify_page of 0.0.2, identify_company of 0.0.1).
C5_FirstMatchWins ==
    /\ cl_result # "pending" =>
          cl_result = EarliestMatch(
              {i \in 1..Len(cl_templates) :
                  TemplateMatches(cl_templates[i][2], cl_text, cl_layout)},
              cl_templates)
    /\ cl_company # "pending" =>
          cl_company = EarliestMatch(
              {i \in 1..Len(cl_templates) : text_match(cl_text, cl_templates[i][2])},
              cl_templates)

\* identify_page returns the earliest matching template, or None when none
\* matches, on every input on which compare_layouts does not raise;
\* identify_company does on every input
FirstMatchWinsUnlessRaised ==
    /\ cl_result \notin {"pending", ZeroDivisionError} =>
          cl_result = EarliestMatch(
              {i \in 1..Len(cl_templates) :
                  TemplateMatches(cl_templates[i][2], cl_text, cl_layout)},
              cl_templates)
    /\ cl_company # "pending" =>
          cl_company = EarliestMatch(
              {i \in 1..Len(cl_templates) : text_match(cl_text, cl_templates[i][2])},
              cl_templates)

\* C6: a page whose process_page failed adds nothing to any bucket and does
\* not end the run; every other page is still processed to its own outcome
\* and, when classified, appended to its bucket; the failed page is counted
\* like any other, progress reaches the total, and the assembler is called.
C6_PageErrorsArePageScoped ==
    \A t \in FailedPages :
        /\ ~InSomeBucket(t)
        /\ \A a \in appends : a[2] # t
        /\ pc = "excepted" => assembler_calls = 1
        /\ completed_pages = Cardinality({u \in PageIds : Collected(u)})
        /\ RunOver =>
              /\ Collected(t)
              /\ \A u \in PageIds \ FailedPages :
                    /\ tasks[u].pc = "done"
                    /\ Collected(u)
                    /\ tasks[u].outcome \in Companies \cup {None}
                    /\ tasks[u].outcome \in Companies =>
                          <<tasks[u].outcome, u>> \in appends
              /\ completed_pages = Cardinality(PageIds)
              /\ ProgressComplete
              /\ assembler_calls = 1

\* a run that returned with a failed page and a sibling of the same document
\* that was classified and written to its company's output
C6_Witness ==
    /\ pc = "returned"
    /\ \E t \in FailedPages, u \in MatchedPages :
          /\ t[1] = u[1]
          /\ InSomeOutput(u)

\* C7: when assembling one company fails, every other company with
\* accumulated pages still has its output written.
C7_AssemblyFailureScopedToCompany ==
    (RunOver /\ assembly_error # None) =>
        \A i \in 1..Len(company_images) :
            company_images[i][1] # assembly_error =>
                /\ company_images[i][1] \in DOMAIN outputs
                /\ Len(outputs[company_images[i][1]]) = Len(company_images[i][2])

\* C8: a document that fails to open contributes 0 pages and is not fatal:
\* the pages of the other documents are dispatched, processed, counted and
\* assembled, and progress reaches the total.
C8_UnopenableDocumentNotFatal ==
    (RunOver /\ SomeDocumentFails /\ SomeDocumentOpens /\ template_source # "malformed") =>
        /\ total_pages = SumPages(pdf_file_paths, 1)
        /\ \A t \in OpenablePages : tasks[t].pc = "done" /\ Collected(t)
        /\ completed_pages = total_pages
        /\ ProgressComplete
        /\ assembler_calls = 1

\* C9: a missing or malformed template source gives an empty template set
\* and the run goes on: no page is classified to a company, every page is
\* counted, progress reaches the total, and nothing is written.
C9_BadTemplateSourceNotFatal ==
    (RunOver /\ template_source \in {"missing", "malformed"} /\ ~SomeDocumentFails) =>
        /\ templates = <<>>
        /\ pc = "returned"
        /\ \A t \in PageIds :
              /\ tasks[t].pc = "done"
              /\ tasks[t].outcome \in {None, "error"}
              /\ Collected(t)
        /\ ProgressComplete
        /\ company_images = <<>>
        /\ folders = {}
        /\ DOMAIN outputs = {}

\* C10: a page the classifier returned None for is in no bucket and in no
\* output, no folder or file exists for anything but a company some page
\* was classified to, and the page is counted once in the completed total.
C10_UnmatchedNeverRouted ==
    \A t \in UnmatchedPages :
        /\ ~InSomeBucket(t)
        /\ ~InSomeOutput(t)
        /\ \A a \in appends : a[2] # t
        /\ \A i \in 1..Len(company_images) : company_images[i][1] \in Companies
        /\ (folders \cup temp_files \cup DOMAIN outputs)
               \subseteq {tasks[u].outcome : u \in MatchedPages}
        /\ completed_pages = Cardinality({u \in PageIds : Collected(u)})
        /\ RunOver => (Collected(t) /\ completed_pages = Cardinality(PageIds))

\* a run that returned with an unmatched page next to a matched page whose
\* company got its output
C10_Witness ==
    /\ pc = "returned"
    /\ UnmatchedPages # {}
    /\ \E u \in MatchedPages : InSomeOutput(u)
    /\ completed_pages = total_pages

\* C14: the layout similarity never raises a division error: compare_layouts
\* returns a value for every pair of feature sequences, 0 for two empty
\* ones, and identify_page therefore never raises.
C14_LayoutSimilarityNeverRaises ==
    cl_result # "pending" =>
        /\ \A i \in 1..Len(cl_templates) :
              "layout_features" \in DOMAIN cl_templates[i][2] =>
                  LET sim == compare_layouts(cl_layout, cl_templates[i][2].layout_features)
                  IN  /\ ~sim.raised
                      /\ (cl_layout = <<>> /\ cl_templates[i][2].layout_features = <<>>)
                            => sim.num = 0
        /\ cl_result # ZeroDivisionError

\* C15: the company returned is one whose template matches by keyword or by
\* similarity above 0.8, None is returned only when no template matches,
\* and a page whose text holds a keyword of template T is classified to T
\* or to an earlier-declared matching template, whatever its layout is.
C15_KeywordOrLayoutMatch ==
    cl_result # "pending" =>
        /\ cl_result = None =>
              \A i \in 1..Len(cl_templates) :
                  ~TemplateMatches(cl_templates[i][2], cl_text, cl_layout)
        /\ \A i \in 1..Len(cl_templates) :
              text_match(cl_text, cl_templates[i][2]) =>
                  \E j \in 1..i :
                      /\ cl_result = cl_templates[j][1]
                      /\ TemplateMatches(cl_templates[j][2], cl_text, cl_layout)

\* C16: once create_company_pdfs has returned or failed, no company folder
\* holds a temp_image.jpg.
C16_TempFilesRemoved == RunOver => temp_files = {}

\* C19: no page-unit of a document is submitted before every page-unit of
\* the documents before it is done, and in every bucket the pages of an
\* earlier document precede the pages of a later one.
C19_DocumentsOneAfterAnother ==
    /\ \A t \in PageIds :
          tasks[t].pc # "unsubmitted" =>
              \A u \in PageIds : u[1] < t[1] => tasks[u].pc = "done"
    /\ \A i \in 1..Len(company_images) :
          \A a \in 1..Len(company_images[i][2]), b \in 1..Len(company_images[i][2]) :
              a < b => company_images[i][2][a][1] <= company_images[i][2][b][1]

\* a bucket that ends with pages of two documents, those of the first
\* document out of page order
C19_Witness ==
    /\ pc = "returned"
    /\ \E i \in 1..Len(company_images) :
          LET list == company_images[i][2]
          IN  /\ Len(list) >= 3
              /\ list[1] = <<1, 1>>
              /\ list[2] = <<1, 0>>
              /\ list[3][1] = 2

\* C13: the document written for a company has as many pages as its bucket
\* accumulated, and page i of it is the i-th accumulated image.
C13_AssembledPagesAsAccumulated ==
    \A c \in DOMAIN outputs :
        /\ Len(outputs[c]) = Len(Lookup(company_images, c))
        /\ \A i \in 1..Len(outputs[c]) : outputs[c][i] = Lookup(company_images, c)[i]

\* the part of C13 that holds: the page count of every written document
AssembledPageCount ==
    \A c \in DOMAIN outputs : Len(outputs[c]) = Len(Lookup(company_images, c))

\* C12: once the root is destroyed while process_files runs, no page-unit
\* that was not yet submitted is submitted, create_company_pdfs is not
\* called, and the page-units already submitted run to their end.
C12_Cancellation ==
    /\ [][root_destroyed =>
            /\ \A t \in PageIds :
                  tasks[t].pc = "unsubmitted" => tasks'[t].pc = "unsubmitted"
            /\ assembler_calls' = assembler_calls]_vars
    /\ []((RunOver /\ root_destroyed) =>
            \A t \in PageIds : tasks[t].pc \in {"unsubmitted", "done"})

\* the part of C12 that holds: what was submitted before the run ended is done
InFlightPagesComplete ==
    RunOver => \A t \in PageIds : tasks[t].pc \in {"unsubmitted", "done"}

(***************************************************************************)
(* 0.0.1, the files on disk.                                               *)
(***************************************************************************)
FilesOf(company) == {f \in saved_files : f[1] = company}
SavedPages(company) ==
    {t \in PageIds : tasks[t].pc = "done" /\ tasks[t].outcome = company}

\* C11: after a run of the 0.0.1 pipeline the folder of every company holds
\* as many image files as pages were classified to the company and
\* processed without error
C11_OneFilePerClassifiedPage ==
    pc = "returned" =>
        \A company \in Companies :
            Cardinality(FilesOf(company)) = Cardinality(SavedPages(company))

\* what does hold: a file per distinct name, never more files than pages
FilePerDistinctName ==
    pc = "returned" =>
        \A company \in Companies :
            /\ Cardinality(FilesOf(company)) =
                   Cardinality({tasks[t].file_name : t \in SavedPages(company)})
            /\ Cardinality(FilesOf(company)) <= Cardinality(SavedPages(company))

\* C17: create_company_folder raises no error when the folder already
\* exists, also when two workers of the same company call it concurrently:
\* no page ends as a failed page because of the folder
C17_FolderCreationIdempotent ==
    \A t \in PageIds : tasks[t].outcome # "FileExistsError"

\* what does hold: the folder of a company exists once a page of it is saved
FolderBeforeFile == \A f \in saved_files : f[1] \in folders

(***************************************************************************)
(* 0.0.1, the name of a page's file.                                       *)
(***************************************************************************)
Named == nm_file_name # <<"pending">>
NamedCompany == identify_company(nm_text, nm_templates)
\* the pattern the company declares for "Order Number", if it declares one
DeclaresOrderNumber ==
    /\ NamedCompany # None
    /\ HasKey(Lookup(nm_templates, NamedCompany).regex_patterns, "Order Number")
OrderNumberMatch ==
    re_search(Lookup(Lookup(nm_templates, NamedCompany).regex_patterns, "Order Number"),
              nm_text)
FallbackName == <<"page_", DecimalDigits[nm_page_number + 1], ".png">>

\* C18 as stated: the file of a classified page is named by the matched
\* substring when the "Order Number" pattern matches the page text, and by
\* page_<pageIndex+1> when it has no match or no such field is declared
C18_NamedByOrderNumber ==
    (Named /\ NamedCompany # None) =>
        IF DeclaresOrderNumber /\ OrderNumberMatch.matched
        THEN nm_file_name = OrderNumberMatch.group \o <<".png">>
        ELSE nm_file_name = FallbackName

\* C18 amended: the matched substring names the file when the first match
\* is not empty; an empty match gives the fallback name like no match does
C18_NamedByNonEmptyOrderNumber ==
    (Named /\ NamedCompany # None) =>
        IF DeclaresOrderNumber /\ OrderNumberMatch.matched
              /\ Len(OrderNumberMatch.group) > 0
        THEN nm_file_name = OrderNumberMatch.group \o <<".png">>
        ELSE nm_file_name = FallbackName

\* a classified page whose pattern matched the empty string: fallback name
C18_Witness ==
    /\ Named
    /\ NamedCompany # None
    /\ DeclaresOrderNumber
    /\ OrderNumberMatch.matched
    /\ OrderNumberMatch.group = <<>>
    /\ nm_file_name = FallbackName

\* a classified page named by its order number
NamedByOrderNumberReached ==
    /\ Named
    /\ NamedCompany # None
    /\ DeclaresOrderNumber
    /\ nm_file_name = <<"a", "a", ".png">>

(***************************************************************************)
(* Progress against finished work, in both versions.                       *)
(***************************************************************************)
FinishedPages == {t \in PageIds : tasks[t].pc = "done"}
\* the count behind the value last given to progress_var
ReportedCount == progress_var[1] \div 100

\* C20: the reported completed count never exceeds the number of pages
\* whose processing has finished; in 0.0.2 a page is counted only after it
\* and every lower-indexed page of its document have finished; in 0.0.1 no
\* progress is reported until every page of every document has finished
C20_ProgressNeverOverReports ==
    /\ ReportedCount <= Cardinality(FinishedPages)
    /\ completed_pages <= Cardinality(FinishedPages)
    /\ version = "0.0.2" =>
           \A t \in PageIds :
               Collected(t) =>
                   \A u \in PagesOf(t[1]) : u[2] <= t[2] => u \in FinishedPages
    /\ (version = "0.0.1" /\ (ReportedCount > 0 \/ completed_pages > 0)) =>
           PageIds \subseteq FinishedPages

\* 0.0.1 has reported progress for a batch of two documents
C20_Witness ==
    /\ version = "0.0.1"
    /\ Len(pdf_file_paths) = 2
    /\ ReportedCount > 0
    /\ ReportedCount < total_pages

\* 0.0.2 has counted a page while a later page of the batch is not finished
CountedWhileOthersRun ==
    /\ version = "0.0.2"
    /\ ReportedCount > 0
    /\ \E t \in PageIds : tasks[t].pc # "done"

====
